---- MODULE Spec2Model ----
(***************************************************************************)
(* Model of src/plugins/prepare.rs (PreparePlugin): the three component    *)
(* initialisation systems (init_rigid_bodies, init_mass_props,             *)
(* init_colliders) and the two maintenance systems (update_aabb,           *)
(* update_mass_props), run once per physics step over one entity.          *)
(*                                                                         *)
(* Scalars are exact rationals [n, d] with d > 0, plus +infinity (d = 0),  *)
(* the value 1.0 / 0.0 has in IEEE arithmetic.  Rounding is not modelled.  *)
(* Components are optional: <<>> is an absent component, <<v>> a present   *)
(* one.  Commands (commands.entity(e).insert(..)) are deferred: they are   *)
(* queued by the init systems and applied, in order, before the            *)
(* maintenance systems run.  Change detection follows Bevy: a system sees  *)
(* a component as added/changed when it was inserted or mutably            *)
(* dereferenced by something else since that system last ran.              *)
(***************************************************************************)
EXTENDS Integers, Sequences, FiniteSets, TLC

VARIABLES
    dim,      \* cargo feature of the build: 2 ("2d") or 3 ("3d")
    ent,      \* the entity: component name -> <<>> or <<value>>
    cmds,     \* deferred commands: sequence of <<component, value>>
    added,    \* init system -> components added since the system last ran
    chg,      \* maintenance system -> components changed since it last ran
    pc,       \* position in the step
    step,     \* number of completed steps
    edits,    \* number of user edits made after the entity was spawned
    auth,     \* history: component -> value authored when the entity was spawned
    pre,      \* history: the entity as update_mass_props found it when it last ran over it
    fired,    \* history: systems whose query matched the entity in the current/last step
    folded,   \* history: collider mass contribution currently folded into Mass
    hist      \* history: user operations, in order

vars == <<dim, ent, cmds, added, chg, pc, step, edits, auth, pre, fired, folded, hist>>

\* ---------------------------------------------------------------- bounds
\* steps run, and components authored at spawn plus components edited later
MaxSteps == 3
MaxInputs == 2

\* ------------------------------------------------------------ scalars
None == <<>>
Some(v) == <<v>>
IsSome(o) == o # <<>>
Val(o) == o[1]

Abs(x) == IF x < 0 THEN -x ELSE x

RECURSIVE GCD(_, _)
GCD(a, b) == IF b = 0 THEN a ELSE GCD(b, a % b)

Inf == [n |-> 1, d |-> 0]
IsInf(a) == a.d = 0

\* the rational n/d (d > 0) in lowest terms
Q(n, d) == LET g == GCD(Abs(n), d) IN [n |-> n \div g, d |-> d \div g]
Int2Q(k) == [n |-> k, d |-> 1]
Zero == Int2Q(0)
One == Int2Q(1)

AddQ(a, b) ==
    IF IsInf(a) \/ IsInf(b) THEN Inf
    ELSE LET g == GCD(a.d, b.d)
             l == (a.d \div g) * b.d
         IN Q(a.n * (l \div a.d) + b.n * (l \div b.d), l)
NegQ(a) == [n |-> -a.n, d |-> a.d]
SubQ(a, b) == AddQ(a, NegQ(b))
MulQ(a, b) == Q(a.n * b.n, a.d * b.d)

\* 1.0 / a in IEEE arithmetic: 1/0 = +inf, 1/inf = 0
Recip(a) ==
    IF IsInf(a) THEN Zero
    ELSE IF a.n = 0 THEN Inf
    ELSE IF a.n < 0 THEN Q(-a.d, -a.n)
    ELSE Q(a.d, a.n)

\* an/ad < bn/bd for ad, bd > 0, without cross-multiplying
RECURSIVE LessFrac(_, _, _, _)
LessFrac(an, ad, bn, bd) ==
    LET qa == an \div ad
        qb == bn \div bd
        ra == an % ad
        rb == bn % bd
    IN IF qa # qb THEN qa < qb
       ELSE IF rb = 0 THEN FALSE
       ELSE IF ra = 0 THEN TRUE
       ELSE LessFrac(bd, rb, ad, ra)

LessQ(a, b) ==
    IF IsInf(a) THEN FALSE
    ELSE IF IsInf(b) THEN TRUE
    ELSE LessFrac(a.n, a.d, b.n, b.d)
GeqQ(a, b) == ~LessQ(a, b)

\* Scalar::EPSILON (f32: 2^-23)
EpsDen == 8388608
EPSILON == [n |-> 1, d |-> EpsDen]

\* ------------------------------------------------------------ vectors
ZeroVec(d) == [i \in 1..d |-> 0]
AddVec(a, b) == [i \in DOMAIN a |-> a[i] + b[i]]
SubVec(a, b) == [i \in DOMAIN a |-> a[i] - b[i]]
Dot(a) == IF Len(a) = 0 THEN 0 ELSE IF Len(a) = 1 THEN a[1] * a[1]
          ELSE IF Len(a) = 2 THEN a[1] * a[1] + a[2] * a[2]
          ELSE a[1] * a[1] + a[2] * a[2] + a[3] * a[3]
\* Vector::length(), for the vectors of the model (all of integral length)
Length(a) == LET sq == Dot(a) IN CHOOSE k \in 0..sq : k * k = sq

\* pos.extend(0.0).as_vec3_f32() ("2d") / pos.as_vec3_f32() ("3d")
PosToTranslation(p, d) == IF d = 2 THEN <<p[1], p[2], 0>> ELSE p
\* Vector::new(t.x as Scalar, t.y as Scalar [, t.z as Scalar])
TranslationToVector(t, d) == IF d = 2 THEN <<t[1], t[2]>> ELSE t
\* Rot -> Quaternion -> Quat (rotations about z, in quarter turns)
RotToQuat(r) == [zturns |-> r.turns]
\* Quat -> Rot
QuatToRot(q) == [turns |-> q.zturns]
RotDefault == [turns |-> 0]

\* ------------------------------------------------------------- shapes
\* A shape s is the box of extents s x 1 [x 1]: half extents (s/2, 1/2 [, 1/2]).
Shapes == {1, 2}
ShapeHalfExtents(s, d) ==
    IF d = 2 THEN <<Q(s, 2), Q(1, 2)>> ELSE <<Q(s, 2), Q(1, 2), Q(1, 2)>>
\* half extents of the shape's bounding box at a rotation about z
RotatedHalfExtents(s, r, d) ==
    LET h == ShapeHalfExtents(s, d)
    IN IF r.turns % 2 = 0 THEN h
       ELSE IF d = 2 THEN <<h[2], h[1]>> ELSE <<h[2], h[1], h[3]>>
ShapeVolume(s, d) ==
    LET h == ShapeHalfExtents(s, d)
        w == [i \in 1..d |-> MulQ(Int2Q(2), h[i])]
    IN IF d = 2 THEN MulQ(w[1], w[2]) ELSE MulQ(MulQ(w[1], w[2]), w[3])

\* ColliderMassProperties::from_shape_and_density: mass = density * volume,
\* inertia of the box about z = mass * (w^2 + h^2) / 12, centred on the origin
FromShapeAndDensity(s, density, d) ==
    LET m == MulQ(density, ShapeVolume(s, d))
        h == ShapeHalfExtents(s, d)
        w2 == MulQ(Int2Q(4), AddQ(MulQ(h[1], h[1]), MulQ(h[2], h[2])))
    IN [mass |-> m,
        inertia |-> MulQ(m, MulQ(w2, Q(1, 12))),
        com |-> ZeroVec(d),
        density |-> density]
\* ColliderMassProperties::ZERO
CMP_ZERO(d) == [mass |-> Zero, inertia |-> Zero, com |-> ZeroVec(d), density |-> Zero]

\* ColliderAabb::from_shape: the shape's local bounds
AabbFromShape(s, d) ==
    LET h == ShapeHalfExtents(s, d)
    IN [mins |-> [i \in 1..d |-> NegQ(h[i])], maxs |-> [i \in 1..d |-> h[i]]]

\* --------------------------------------------------------- components
BodyComps == {"Transform", "Pos", "Rot", "PrevPos", "PrevRot", "LinVel", "AngVel",
              "PreSolveLinVel", "PreSolveAngVel", "ExternalForce", "ExternalTorque",
              "Restitution", "Friction", "TimeSleeping"}
MassComps == {"Mass", "InvMass", "Inertia", "InvInertia", "LocalCom"}
ColliderComps == {"ColliderAabb", "ColliderMassProperties", "PrevColliderMassProperties"}
Comps == {"RigidBody", "ColliderShape"} \cup BodyComps \cup MassComps \cup ColliderComps

\* T::default()
Default(c, d) ==
    CASE c \in {"Pos", "PrevPos", "LinVel", "PreSolveLinVel", "LocalCom"} -> ZeroVec(d)
      [] c \in {"AngVel", "PreSolveAngVel"} -> IF d = 2 THEN <<0>> ELSE ZeroVec(3)
      [] c \in {"Rot", "PrevRot"} -> RotDefault
      [] c \in {"Mass", "InvMass", "Inertia", "InvInertia"} -> Zero
      [] OTHER -> "default"

\* the value a user authors for a component when spawning the entity
Authored(c, d) ==
    CASE c = "Transform" -> [translation |-> <<4, 5, 6>>, rotation |-> [zturns |-> 3]]
      [] c = "Pos" -> IF d = 2 THEN <<1, 2>> ELSE <<1, 2, 3>>
      [] c = "PrevPos" -> IF d = 2 THEN <<7, 8>> ELSE <<7, 8, 9>>
      [] c = "Rot" -> [turns |-> 1]
      [] c = "PrevRot" -> [turns |-> 2]
      [] c = "LinVel" -> IF d = 2 THEN <<3, 4>> ELSE <<3, 4, 0>>
      [] c = "AngVel" -> IF d = 2 THEN <<-2>> ELSE <<0, 0, -2>>
      [] c = "PreSolveLinVel" -> IF d = 2 THEN <<1, 0>> ELSE <<1, 0, 0>>
      [] c = "PreSolveAngVel" -> IF d = 2 THEN <<1>> ELSE <<0, 0, 1>>
      [] c = "LocalCom" -> IF d = 2 THEN <<1, 1>> ELSE <<1, 1, 1>>
      [] c = "Mass" -> Int2Q(2)
      [] c = "InvMass" -> Int2Q(5)
      [] c = "Inertia" -> Int2Q(3)
      [] c = "InvInertia" -> Int2Q(7)
      [] c = "ColliderAabb" -> [mins |-> [i \in 1..d |-> Int2Q(-9)],
                                maxs |-> [i \in 1..d |-> Int2Q(9)]]
      [] c = "ColliderMassProperties" -> FromShapeAndDensity(1, Int2Q(2), d)
      [] c = "PrevColliderMassProperties" -> FromShapeAndDensity(2, One, d)
      [] OTHER -> "authored"

Get(e, c) == Val(e[c])
Has(e, c) == IsSome(e[c])

\* ----------------------------------------------------- change detection
InitSystems == {"init_rigid_bodies", "init_mass_props", "init_colliders"}
AABBChanged == {"Pos", "Rot", "LinVel", "AngVel"}
MassPropsChanged == {"Mass", "InvMass", "Inertia", "InvInertia",
                     "ColliderShape", "ColliderMassProperties"}
Filter(sys) == IF sys = "update_aabb" THEN AABBChanged ELSE MassPropsChanged

\* components of MassPropsQuery and ColliderQuery (all required)
HasMassProps(e) == \A c \in MassComps : Has(e, c)
HasCollider(e) == Has(e, "ColliderShape") /\ \A c \in ColliderComps : Has(e, c)

\* Touch with a system's own writes counting as changed for itself
TouchOwn(ch, cs, self) ==
    [sys \in DOMAIN ch |-> ch[sys] \cup (cs \cap Filter(sys))]

\* a write of the components cs by system `self` (self = "" for the user and
\* for applied commands): they count as changed for every other system
Touch(ch, cs, self) ==
    [sys \in DOMAIN ch |-> IF sys = self THEN ch[sys] ELSE ch[sys] \cup (cs \cap Filter(sys))]

\* ------------------------------------------------------ init_rigid_bodies
\* InitRigidBodiesTransform with the mirroring of the authored pose left out
KeepTransform(e, d) == e["Transform"]

\* the in-place writes to Transform (lines 68-77, 104-107)
InitRigidBodiesTransform(e, d) ==
    IF ~Has(e, "Transform") THEN None
    ELSE LET t == Get(e, "Transform")
             t1 == IF Has(e, "Pos")
                   THEN [t EXCEPT !.translation = PosToTranslation(Get(e, "Pos"), d)]
                   ELSE t
             t2 == IF Has(e, "Rot")
                   THEN [t1 EXCEPT !.rotation = RotToQuat(Get(e, "Rot"))]
                   ELSE t1
         IN Some(t2)

\* DerivedTranslation with Vector::ONE as the fallback
OneTranslation(e, d) ==
    IF Has(e, "Transform")
    THEN TranslationToVector(Get(e, "Transform").translation, d)
    ELSE [i \in 1..d |-> 1]

\* DerivedTranslation with the transform ignored
ZeroTranslation(e, d) == ZeroVec(d)

\* the position of a body without Pos (lines 79-95)
DerivedTranslation(e, d) ==
    IF Has(e, "Transform")
    THEN TranslationToVector(Get(e, "Transform").translation, d)
    ELSE ZeroVec(d)

\* the orientation of a body without Rot (line 109)
DerivedRotation(e) ==
    IF Has(e, "Transform") THEN QuatToRot(Get(e, "Transform").rotation) ELSE RotDefault

InsertIfNone(e, c, d) == IF Has(e, c) THEN <<>> ELSE << <<c, Default(c, d)>> >>

\* the commands queued for one body (lines 63-136)
InitRigidBodiesCmds(e, d) ==
    LET translation == DerivedTranslation(e, d)
        rotation == DerivedRotation(e)
        posCmds == IF Has(e, "Pos")
                   THEN << <<"PrevPos", Get(e, "Pos")>> >>
                   ELSE << <<"Pos", translation>>, <<"PrevPos", translation>> >>
        rotCmds == IF Has(e, "Rot")
                   THEN << <<"PrevRot", Get(e, "Rot")>> >>
                   ELSE << <<"Rot", rotation>>, <<"PrevRot", rotation>> >>
    IN posCmds \o rotCmds
       \o InsertIfNone(e, "LinVel", d)
       \o << <<"PreSolveLinVel", Default("PreSolveLinVel", d)>> >>
       \o InsertIfNone(e, "AngVel", d)
       \o << <<"PreSolveAngVel", Default("PreSolveAngVel", d)>> >>
       \o InsertIfNone(e, "ExternalForce", d)
       \o InsertIfNone(e, "ExternalTorque", d)
       \o InsertIfNone(e, "Restitution", d)
       \o InsertIfNone(e, "Friction", d)
       \o InsertIfNone(e, "TimeSleeping", d)

\* -------------------------------------------------------- init_mass_props
\* Inertia::inverse()
InertiaInverse(i) == Recip(i)

\* InitMassPropsCmds with the inverse mass derived before the defaults are
\* inserted
InitMassPropsCmdsSwapped(e, d) ==
    LET mass == IF Has(e, "Mass") THEN Get(e, "Mass") ELSE Default("Mass", d)
        inertia == IF Has(e, "Inertia") THEN Get(e, "Inertia") ELSE Default("Inertia", d)
    IN (IF ~Has(e, "InvMass") THEN << <<"InvMass", Recip(mass)>> >> ELSE <<>>)
       \o (IF ~Has(e, "Mass")
           THEN << <<"Mass", Default("Mass", d)>>, <<"InvMass", Default("InvMass", d)>> >>
           ELSE <<>>)
       \o (IF ~Has(e, "Inertia")
           THEN << <<"Inertia", Default("Inertia", d)>>,
                   <<"InvInertia", Default("InvInertia", d)>> >>
           ELSE <<>>)
       \o (IF ~Has(e, "InvInertia")
           THEN << <<"InvInertia", InertiaInverse(inertia)>> >> ELSE <<>>)
       \o InsertIfNone(e, "LocalCom", d)

\* the commands queued for one entity (lines 155-173)
InitMassPropsCmds(e, d) ==
    LET mass == IF Has(e, "Mass") THEN Get(e, "Mass") ELSE Default("Mass", d)
        inertia == IF Has(e, "Inertia") THEN Get(e, "Inertia") ELSE Default("Inertia", d)
    IN (IF ~Has(e, "Mass")
        THEN << <<"Mass", Default("Mass", d)>>, <<"InvMass", Default("InvMass", d)>> >>
        ELSE <<>>)
       \o (IF ~Has(e, "InvMass") THEN << <<"InvMass", Recip(mass)>> >> ELSE <<>>)
       \o (IF ~Has(e, "Inertia")
           THEN << <<"Inertia", Default("Inertia", d)>>,
                   <<"InvInertia", Default("InvInertia", d)>> >>
           ELSE <<>>)
       \o (IF ~Has(e, "InvInertia")
           THEN << <<"InvInertia", InertiaInverse(inertia)>> >> ELSE <<>>)
       \o InsertIfNone(e, "LocalCom", d)

\* --------------------------------------------------------- init_colliders
\* InitCollidersCmds with the snapshot seeded from the shape instead of ZERO
InitCollidersCmdsSeeded(e, d) ==
    LET shape == Get(e, "ColliderShape")
    IN (IF ~Has(e, "ColliderAabb")
        THEN << <<"ColliderAabb", AabbFromShape(shape, d)>> >> ELSE <<>>)
       \o (IF ~Has(e, "ColliderMassProperties")
           THEN << <<"ColliderMassProperties", FromShapeAndDensity(shape, One, d)>> >>
           ELSE <<>>)
       \o (IF ~Has(e, "PrevColliderMassProperties")
           THEN << <<"PrevColliderMassProperties", FromShapeAndDensity(shape, One, d)>> >>
           ELSE <<>>)

\* the commands queued for one collider (lines 190-200)
InitCollidersCmds(e, d) ==
    LET shape == Get(e, "ColliderShape")
    IN (IF ~Has(e, "ColliderAabb")
        THEN << <<"ColliderAabb", AabbFromShape(shape, d)>> >> ELSE <<>>)
       \o (IF ~Has(e, "ColliderMassProperties")
           THEN << <<"ColliderMassProperties", FromShapeAndDensity(shape, One, d)>> >>
           ELSE <<>>)
       \o (IF ~Has(e, "PrevColliderMassProperties")
           THEN << <<"PrevColliderMassProperties", CMP_ZERO(d)>> >> ELSE <<>>)

\* ------------------------------------------------------ applying commands
\* EntityCommands::insert: adds the component or replaces its value
RECURSIVE ApplyCmds(_, _)
ApplyCmds(e, q) ==
    IF q = <<>> THEN e
    ELSE ApplyCmds([e EXCEPT ![q[1][1]] = Some(q[1][2])], Tail(q))

CmdComps(q) == {q[i][1] : i \in DOMAIN q}

\* ------------------------------------------------------------ update_aabb
\* Res<DeltaTime>: the fixed step duration, 1/100 s
DeltaTime == Q(1, 100)

\* SafetyMargin with the factor 2 left out
SafetyMarginNoFactor(e, d) ==
    LET lin_vel_len == IF Has(e, "LinVel") THEN Length(Get(e, "LinVel")) ELSE 0
        ang_vel_len == IF ~Has(e, "AngVel") THEN 0
                       ELSE IF d = 2 THEN Abs(Get(e, "AngVel")[1])
                       ELSE Length(Get(e, "AngVel"))
    IN MulQ(DeltaTime, Int2Q(lin_vel_len + ang_vel_len))

\* SafetyMargin with the 2d angular velocity taken with its sign
SafetyMarginSigned(e, d) ==
    LET lin_vel_len == IF Has(e, "LinVel") THEN Length(Get(e, "LinVel")) ELSE 0
        ang_vel_len == IF ~Has(e, "AngVel") THEN 0
                       ELSE IF d = 2 THEN Get(e, "AngVel")[1]
                       ELSE Length(Get(e, "AngVel"))
        safety_margin_factor == MulQ(Int2Q(2), DeltaTime)
    IN MulQ(safety_margin_factor, Int2Q(lin_vel_len + ang_vel_len))

\* the safety margin (lines 213-227)
SafetyMargin(e, d) ==
    LET lin_vel_len == IF Has(e, "LinVel") THEN Length(Get(e, "LinVel")) ELSE 0
        ang_vel_len == IF ~Has(e, "AngVel") THEN 0
                       ELSE IF d = 2 THEN Abs(Get(e, "AngVel")[1])
                       ELSE Length(Get(e, "AngVel"))
        safety_margin_factor == MulQ(Int2Q(2), DeltaTime)
    IN MulQ(safety_margin_factor, Int2Q(lin_vel_len + ang_vel_len))

\* the bounding box written for one collider (lines 216-231)
ComputeAabb(e, d) ==
    LET pos == Get(e, "Pos")
        half_extents == RotatedHalfExtents(Get(e, "ColliderShape"), Get(e, "Rot"), d)
        safety_margin == SafetyMargin(e, d)
        extended == [i \in 1..d |-> AddQ(half_extents[i], safety_margin)]
    IN [mins |-> [i \in 1..d |-> SubQ(Int2Q(pos[i]), extended[i])],
        maxs |-> [i \in 1..d |-> AddQ(Int2Q(pos[i]), extended[i])]]

\* UpdateAabbMatches with the change filter left out
UpdateAabbMatchesAlways(e, ch) ==
    HasCollider(e) /\ Has(e, "Pos") /\ Has(e, "Rot")

\* the colliders update_aabb visits (query and filter, line 209)
UpdateAabbMatches(e, ch) ==
    /\ HasCollider(e) /\ Has(e, "Pos") /\ Has(e, "Rot")
    /\ ch \cap AABBChanged # {}

UpdateAabb(e, d) == [e EXCEPT !["ColliderAabb"] = Some(ComputeAabb(e, d))]

\* ------------------------------------------------------ update_mass_props
\* MassPropsQueryItem -= ColliderMassProperties; the inverses follow the sums
\* (section 3: inverse mass is the derived quantity 1/mass)
SubAssign(e, c) ==
    LET m == SubQ(Get(e, "Mass"), c.mass)
        i == SubQ(Get(e, "Inertia"), c.inertia)
    IN [e EXCEPT !["Mass"] = Some(m), !["InvMass"] = Some(Recip(m)),
                 !["Inertia"] = Some(i), !["InvInertia"] = Some(InertiaInverse(i)),
                 !["LocalCom"] = Some(SubVec(Get(e, "LocalCom"), c.com))]

\* MassPropsQueryItem += ColliderMassProperties
AddAssign(e, c) ==
    LET m == AddQ(Get(e, "Mass"), c.mass)
        i == AddQ(Get(e, "Inertia"), c.inertia)
    IN [e EXCEPT !["Mass"] = Some(m), !["InvMass"] = Some(Recip(m)),
                 !["Inertia"] = Some(i), !["InvInertia"] = Some(InertiaInverse(i)),
                 !["LocalCom"] = Some(AddVec(Get(e, "LocalCom"), c.com))]

\* lines 249-251
DeriveInvMass(e, ch) ==
    IF "Mass" \in ch /\ GeqQ(Get(e, "Mass"), EPSILON)
    THEN [e EXCEPT !["InvMass"] = Some(Recip(Get(e, "Mass")))]
    ELSE e

\* the value stored in the previous-step snapshot (line 258)
NewPrevMassProps(e, d) == Get(e, "ColliderMassProperties")

\* the recomputed collider mass properties (lines 259-262)
NewMassProps(e, d) ==
    FromShapeAndDensity(Get(e, "ColliderShape"), Get(e, "ColliderMassProperties").density, d)

\* lines 253-266
FoldCollider(e, d) ==
    IF ~HasCollider(e) THEN e
    ELSE LET e1 == SubAssign(e, Get(e, "PrevColliderMassProperties"))
             e2 == [e1 EXCEPT !["PrevColliderMassProperties"] = Some(NewPrevMassProps(e, d)),
                              !["ColliderMassProperties"] = Some(NewMassProps(e, d))]
         IN AddAssign(e2, Get(e2, "ColliderMassProperties"))

\* ClampFloor with the floor left out
NoClampFloor(e) == e

\* lines 268-273
ClampFloor(e) ==
    LET e1 == IF LessQ(Get(e, "Mass"), EPSILON) THEN [e EXCEPT !["Mass"] = Some(EPSILON)] ELSE e
    IN IF LessQ(Get(e1, "InvMass"), EPSILON) THEN [e1 EXCEPT !["InvMass"] = Some(EPSILON)] ELSE e1

UpdateMassPropsMatches(e, ch) == HasMassProps(e) /\ ch \cap MassPropsChanged # {}

\* the loop body (lines 248-274)
UpdateMassProps(e, ch, d) == ClampFloor(FoldCollider(DeriveInvMass(e, ch), d))

\* the components the loop body writes through its mutable query items
UpdateMassPropsWrites(e, ch, d) ==
    LET f == FoldCollider(DeriveInvMass(e, ch), d)
    IN (IF "Mass" \in ch /\ GeqQ(Get(e, "Mass"), EPSILON) THEN {"InvMass"} ELSE {})
       \cup (IF HasCollider(e)
             THEN MassComps \cup {"PrevColliderMassProperties", "ColliderMassProperties"}
             ELSE {})
       \cup (IF LessQ(Get(f, "Mass"), EPSILON) THEN {"Mass"} ELSE {})
       \cup (IF LessQ(Get(f, "InvMass"), EPSILON) THEN {"InvMass"} ELSE {})

\* ------------------------------------------------------------ the user
\* values a user writes into a component of an existing entity
EditVals(c, d) ==
    CASE c = "RigidBody" -> {"authored"}
      [] c = "ColliderShape" -> Shapes
      [] c = "Mass" -> {Zero, Int2Q(3)}
      [] c = "InvMass" -> {Int2Q(5)}
      [] c = "Inertia" -> {Int2Q(4)}
      [] c = "Pos" -> {IF d = 2 THEN <<5, 5>> ELSE <<5, 5, 5>>}
      [] c = "LinVel" -> {IF d = 2 THEN <<6, 8>> ELSE <<6, 8, 0>>}
EditComps == {"RigidBody", "ColliderShape", "Mass", "InvMass", "Inertia", "Pos", "LinVel"}

\* masses a user authors when spawning
SpawnMasses == {Zero, Int2Q(2)}

Spawn(hasBody, shape, A, m, d) ==
    [c \in Comps |->
        IF c = "RigidBody" THEN (IF hasBody THEN Some("authored") ELSE None)
        ELSE IF c = "ColliderShape" THEN (IF shape \in Shapes THEN Some(shape) ELSE None)
        ELSE IF c \notin A THEN None
        ELSE IF c = "Mass" THEN Some(m)
        ELSE Some(Authored(c, d))]

Present(e) == {c \in Comps : Has(e, c)}
\* number of optional components the user authored at spawn
AuthoredCount(a) == Cardinality(Present(a) \ {"RigidBody", "ColliderShape"})

\* the subsets of U of at most k elements
RECURSIVE SubsetsUpTo(_, _)
SubsetsUpTo(U, k) ==
    IF k = 0 THEN {{}}
    ELSE LET S == SubsetsUpTo(U, k - 1) IN S \cup {s \cup {c} : s \in S, c \in U}

InitOver(U) ==
    /\ dim \in {2, 3}
    /\ \E hasBody \in BOOLEAN, shape \in {0, 1}, A \in SubsetsUpTo(U, MaxInputs), m \in SpawnMasses :
          /\ hasBody \/ shape \in Shapes
          /\ "Mass" \notin A => m = Zero
          /\ ent = Spawn(hasBody, shape, A, m, dim)
    /\ auth = ent
    /\ cmds = <<>>
    /\ added = [sys \in InitSystems |-> Present(ent) \cap {"RigidBody", "ColliderShape"}]
    /\ chg = [sys \in {"update_aabb", "update_mass_props"} |-> Present(ent) \cap Filter(sys)]
    /\ pc = "user"
    /\ step = 0
    /\ edits = 0
    /\ pre = [e |-> ent, ch |-> {}, folded |-> Zero]
    /\ fired = {}
    /\ folded = Zero
    /\ hist = <<>>

Init == InitOver(BodyComps \cup MassComps \cup ColliderComps)

\* the user inserts or overwrites component c between two steps
UserInsert(c, v) ==
    /\ pc = "user"
    /\ step >= 1
    /\ step < MaxSteps
    /\ AuthoredCount(auth) + edits < MaxInputs
    /\ ent' = [ent EXCEPT ![c] = Some(v)]
    /\ added' = [sys \in InitSystems |->
                    IF ~Has(ent, c) /\ c \in {"RigidBody", "ColliderShape"}
                    THEN added[sys] \cup {c} ELSE added[sys]]
    /\ chg' = Touch(chg, {c}, "")
    /\ edits' = edits + 1
    /\ folded' = IF c = "Mass" THEN Zero ELSE folded
    /\ hist' = Append(hist, <<step, c, v>>)
    /\ UNCHANGED <<dim, cmds, pc, step, auth, pre, fired>>

\* ---------------------------------------------------------- the systems
\* MaintenanceChain with the two systems in the opposite order
MaintenanceSwapped == <<"update_mass_props", "update_aabb">>

\* (update_aabb, update_mass_props).chain() (lines 19-20)
MaintenanceChain == <<"update_aabb", "update_mass_props">>
\* the position after maintenance system p: the next system of the chain, or
\* the end of the step
AfterMaintenance(p) ==
    IF p = MaintenanceChain[1] THEN MaintenanceChain[2] ELSE "user"

init_rigid_bodies ==
    /\ pc = "user"
    /\ step < MaxSteps
    /\ IF Has(ent, "RigidBody") /\ "RigidBody" \in added["init_rigid_bodies"]
       THEN /\ ent' = [ent EXCEPT !["Transform"] = InitRigidBodiesTransform(ent, dim)]
            /\ cmds' = cmds \o InitRigidBodiesCmds(ent, dim)
            /\ fired' = {"init_rigid_bodies"}
       ELSE /\ fired' = {}
            /\ UNCHANGED <<ent, cmds>>
    /\ added' = [added EXCEPT !["init_rigid_bodies"] = {}]
    /\ pc' = "init_mass_props"
    /\ UNCHANGED <<dim, chg, step, edits, auth, pre, folded, hist>>

init_mass_props ==
    /\ pc = "init_mass_props"
    /\ IF \/ Has(ent, "RigidBody") /\ "RigidBody" \in added["init_mass_props"]
          \/ Has(ent, "ColliderShape") /\ "ColliderShape" \in added["init_mass_props"]
       THEN /\ cmds' = cmds \o InitMassPropsCmds(ent, dim)
            /\ fired' = fired \cup {"init_mass_props"}
       ELSE UNCHANGED <<cmds, fired>>
    /\ added' = [added EXCEPT !["init_mass_props"] = {}]
    /\ pc' = "init_colliders"
    /\ UNCHANGED <<dim, ent, chg, step, edits, auth, pre, folded, hist>>

init_colliders ==
    /\ pc = "init_colliders"
    /\ IF Has(ent, "ColliderShape") /\ "ColliderShape" \in added["init_colliders"]
       THEN /\ cmds' = cmds \o InitCollidersCmds(ent, dim)
            /\ fired' = fired \cup {"init_colliders"}
       ELSE UNCHANGED <<cmds, fired>>
    /\ added' = [added EXCEPT !["init_colliders"] = {}]
    /\ pc' = "apply_commands"
    /\ UNCHANGED <<dim, ent, chg, step, edits, auth, pre, folded, hist>>

\* the deferred commands of the init systems are applied before the
\* maintenance systems run
apply_commands ==
    /\ pc = "apply_commands"
    /\ ent' = ApplyCmds(ent, cmds)
    /\ chg' = Touch(chg, CmdComps(cmds), "")
    /\ cmds' = <<>>
    /\ pc' = MaintenanceChain[1]
    /\ UNCHANGED <<dim, added, step, edits, auth, pre, fired, folded, hist>>

update_aabb ==
    /\ pc = "update_aabb"
    /\ IF UpdateAabbMatches(ent, chg["update_aabb"])
       THEN /\ ent' = UpdateAabb(ent, dim)
            /\ fired' = fired \cup {"update_aabb"}
            /\ chg' = Touch([chg EXCEPT !["update_aabb"] = {}],
                            {"ColliderAabb"}, "update_aabb")
       ELSE /\ chg' = [chg EXCEPT !["update_aabb"] = {}]
            /\ UNCHANGED <<ent, fired>>
    /\ pc' = AfterMaintenance("update_aabb")
    /\ step' = IF pc' = "user" THEN step + 1 ELSE step
    /\ UNCHANGED <<dim, cmds, added, edits, auth, pre, folded, hist>>

update_mass_props ==
    /\ pc = "update_mass_props"
    /\ IF UpdateMassPropsMatches(ent, chg["update_mass_props"])
       THEN /\ ent' = UpdateMassProps(ent, chg["update_mass_props"], dim)
            /\ fired' = fired \cup {"update_mass_props"}
            /\ pre' = [e |-> ent, ch |-> chg["update_mass_props"], folded |-> folded]
            /\ folded' = IF HasCollider(ent)
                         THEN Get(ent', "ColliderMassProperties").mass ELSE folded
            /\ chg' = Touch([chg EXCEPT !["update_mass_props"] = {}],
                            UpdateMassPropsWrites(ent, chg["update_mass_props"], dim),
                            "update_mass_props")
       ELSE /\ chg' = [chg EXCEPT !["update_mass_props"] = {}]
            /\ UNCHANGED <<ent, fired, pre, folded>>
    /\ pc' = AfterMaintenance("update_mass_props")
    /\ step' = IF pc' = "user" THEN step + 1 ELSE step
    /\ UNCHANGED <<dim, cmds, added, edits, auth, hist>>

Next ==
    \/ \E c \in EditComps : \E v \in EditVals(c, dim) : UserInsert(c, v)
    \/ init_rigid_bodies
    \/ init_mass_props
    \/ init_colliders
    \/ apply_commands
    \/ update_aabb
    \/ update_mass_props

Spec == Init /\ [][Next]_vars

\* ============================================================== claims
\* a step has just completed and the user has not touched the entity since
StepEnd == pc = "user" /\ step >= 1 /\ (hist = <<>> \/ hist[Len(hist)][1] < step)
\* update_mass_props processed the entity in the step that just completed
MassPassRan == StepEnd /\ "update_mass_props" \in fired
\* the user's edits so far only replaced the collider shape
OnlyShapeEdits == \A i \in DOMAIN hist : hist[i][2] = "ColliderShape"

\* C1: delta correctness.  After every pass over a body with a collider whose
\* shape changed, and in which the clamp did not fire, the aggregate mass is
\* the mass before the pass minus the contribution folded in so far plus the
\* collider's new contribution.
C1_DeltaCorrectness ==
    (/\ MassPassRan
     /\ HasCollider(pre.e)
     /\ "ColliderShape" \in pre.ch
     /\ OnlyShapeEdits
     /\ ~Has(auth, "PrevColliderMassProperties")
     /\ LessQ(EPSILON, Get(ent, "Mass")))
    => Get(ent, "Mass")
         = AddQ(SubQ(Get(pre.e, "Mass"), pre.folded), Get(ent, "ColliderMassProperties").mass)

\* C2: snapshot invariant.  After every pass that processed a collider, the
\* previous-step snapshot equals the mass properties recomputed in that pass.
C2_SnapshotIsFresh ==
    (MassPassRan /\ HasCollider(pre.e))
    => Get(ent, "PrevColliderMassProperties") = Get(ent, "ColliderMassProperties")

\* mass and inverse mass are at or above the epsilon floor
MassFloor(e) == GeqQ(Get(e, "Mass"), EPSILON) /\ GeqQ(Get(e, "InvMass"), EPSILON)
\* Mass Defaulting has been applied to the entity
MassDefaulted == step >= 1 \/ pc \in {"update_aabb", "update_mass_props"}

\* C3 (as claimed): mass floor in every state after Mass Defaulting, between
\* passes included.
C3_MassFloorAlways == (MassDefaulted /\ HasMassProps(ent)) => MassFloor(ent)

\* C3 (amended): mass floor at the end of every step, after Mass Aggregation
\* Maintenance has run and before the user touches the entity again.
C3_MassFloorAtStepEnd == (StepEnd /\ HasMassProps(ent)) => MassFloor(ent)

\* a step ended in which the pass raised a mass below epsilon to the floor
C3_Witness ==
    /\ MassPassRan
    /\ LessQ(Get(pre.e, "Mass"), EPSILON)
    /\ Get(ent, "Mass") = EPSILON

\* C4: degenerate authored mass.  A new body authored with a mass below
\* epsilon, no inverse mass and no collider ends its first step with
\* mass = epsilon and inverse mass = 1/epsilon.
C4_DegenerateMass ==
    (/\ StepEnd /\ step = 1
     /\ Has(auth, "RigidBody") /\ ~Has(auth, "ColliderShape")
     /\ Has(auth, "Mass") /\ LessQ(Get(auth, "Mass"), EPSILON)
     /\ ~Has(auth, "InvMass"))
    => /\ Get(ent, "Mass") = EPSILON
       /\ Get(ent, "InvMass") = Q(EpsDen, 1)

\* the three defaulting passes of the first step have been applied
Defaulted == pc = "update_aabb" /\ step = 0

\* C5: no-clobber defaulting.  Every field authored at spawn (the transform,
\* which Body Defaulting mirrors, aside) still has its authored value after
\* the defaulting passes.
C5_NoClobber ==
    Defaulted => \A c \in Comps \ {"Transform"} : Has(auth, c) => ent[c] = auth[c]

\* C6: up-to-date bounds.  At the end of every step the bounding box of a
\* collider on a body equals the bounds of its current shape at the current
\* pose, inflated by the margin for the current velocities.
C6_BoundsUpToDate ==
    (StepEnd /\ HasCollider(ent) /\ Has(ent, "Pos") /\ Has(ent, "Rot"))
    => Get(ent, "ColliderAabb") = ComputeAabb(ent, dim)

\* the entity a user gets who spawns the components `a` with a rigid body and
\* the shape s at once, after its first step
SameStep(a, s, d) ==
    LET e0 == [a EXCEPT !["RigidBody"] = Some("authored"), !["ColliderShape"] = Some(s)]
        e1 == [e0 EXCEPT !["Transform"] = InitRigidBodiesTransform(e0, d)]
        e2 == ApplyCmds(e1, InitRigidBodiesCmds(e0, d) \o InitMassPropsCmds(e0, d)
                                \o InitCollidersCmds(e0, d))
        e3 == IF UpdateAabbMatches(e2, AABBChanged) THEN UpdateAabb(e2, d) ELSE e2
    IN UpdateMassProps(e3, MassPropsChanged, d)

\* the rigid body and the shape were attached together, or one of them first
\* and the other in a later step, and the user did nothing else
AttachedInSomeOrder ==
    /\ Has(ent, "RigidBody") /\ Has(ent, "ColliderShape")
    /\ \/ hist = <<>>
       \/ /\ Len(hist) = 1
          /\ ~Has(auth, hist[1][2])
          /\ hist[1][2] \in {"RigidBody", "ColliderShape"}

\* C7: attachment-order independence.  Whatever the order in which the body
\* and its shape were attached, the mass, the inverse mass, the collider's
\* mass properties and its snapshot are those of attaching both at once.
C7_OrderIndependent ==
    (StepEnd /\ AttachedInSomeOrder)
    => \A c \in {"Mass", "InvMass", "ColliderMassProperties", "PrevColliderMassProperties"} :
          ent[c] = SameStep(auth, Get(ent, "ColliderShape"), dim)[c]

\* C8: inverse-mass consistency.  After every pass over a body whose mass was
\* at or above epsilon before the pass and is after it, inverse mass = 1/mass.
C8_InvMassConsistent ==
    (/\ MassPassRan
     /\ GeqQ(Get(pre.e, "Mass"), EPSILON)
     /\ GeqQ(Get(ent, "Mass"), EPSILON))
    => Get(ent, "InvMass") = Recip(Get(ent, "Mass"))

\* translation t reads position p
Reads(t, p, d) == t[1] = p[1] /\ t[2] = p[2] /\ (d = 3 => t[3] = p[3])
\* a new body with an authored position has just been defaulted
NewBodyWithPos == Defaulted /\ Has(auth, "RigidBody") /\ Has(auth, "Pos")

\* C9 (as claimed): after Body Defaulting of a body authored with position P,
\* the position and its snapshot are P and the entity has a transform that
\* reads P, whether or not a transform was authored.
C9_TransformReadsPos ==
    NewBodyWithPos
    => /\ ent["Pos"] = auth["Pos"]
       /\ ent["PrevPos"] = auth["Pos"]
       /\ Has(ent, "Transform")
       /\ Reads(Get(ent, "Transform").translation, Get(auth, "Pos"), dim)

\* C9 (amended): the position and its snapshot are P; a transform that existed
\* reads P, and no transform is created for a body that has none.
C9_AuthoredPosWins ==
    NewBodyWithPos
    => /\ ent["Pos"] = auth["Pos"]
       /\ ent["PrevPos"] = auth["Pos"]
       /\ Has(ent, "Transform") = Has(auth, "Transform")
       /\ Has(auth, "Transform")
            => Reads(Get(ent, "Transform").translation, Get(auth, "Pos"), dim)

\* a body authored with a position and a transform has been defaulted
C9_Witness ==
    /\ NewBodyWithPos
    /\ Has(auth, "Transform")
    /\ Get(ent, "Transform") # Get(auth, "Transform")

\* a new body with a transform and no authored pose has just been defaulted
NewBodyFromTransform ==
    /\ Defaulted
    /\ Has(auth, "RigidBody") /\ Has(auth, "Transform")
    /\ ~Has(auth, "Pos") /\ ~Has(auth, "Rot")

\* C10: transform as source.  Body Defaulting of a body with a transform and
\* no authored position or orientation sets position = previous position =
\* the translation, orientation = previous orientation = the rotation, and
\* leaves the transform as authored.
C10_TransformAsSource ==
    NewBodyFromTransform
    => LET t == Get(auth, "Transform")
       IN /\ Reads(t.translation, Get(ent, "Pos"), dim)
          /\ Len(Get(ent, "Pos")) = dim
          /\ ent["PrevPos"] = ent["Pos"]
          /\ Get(ent, "Rot").turns = t.rotation.zturns
          /\ ent["PrevRot"] = ent["Rot"]
          /\ ent["Transform"] = auth["Transform"]

\* such a body, defaulted to a position other than the origin
C10_Witness ==
    /\ NewBodyFromTransform
    /\ Get(ent, "Pos") # ZeroVec(dim)
    /\ Get(ent, "Rot") # RotDefault

\* a new body without transform and authored pose has just been defaulted
NewBodyWithoutPose ==
    /\ Defaulted
    /\ Has(auth, "RigidBody")
    /\ ~Has(auth, "Transform") /\ ~Has(auth, "Pos") /\ ~Has(auth, "Rot")

\* C11: origin default.  Body Defaulting of a body with no authored position,
\* orientation or transform sets position = origin, orientation = identity,
\* and both previous-step snapshots equal to them.
C11_OriginDefault ==
    NewBodyWithoutPose
    => /\ Len(Get(ent, "Pos")) = dim
       /\ \A i \in 1..dim : Get(ent, "Pos")[i] = 0
       /\ Get(ent, "Rot").turns = 0
       /\ ent["PrevPos"] = ent["Pos"]
       /\ ent["PrevRot"] = ent["Rot"]

\* such a body, which was authored with other previous-step snapshots
C11_Witness ==
    /\ NewBodyWithoutPose
    /\ Has(auth, "PrevPos") /\ Has(auth, "PrevRot")
    /\ Has(ent, "Pos") /\ Has(ent, "Rot")

\* update_aabb has just written the collider's bounding box
AabbWritten == pc = "update_mass_props" /\ "update_aabb" \in fired
\* linear speed and angular speed magnitude, an absent velocity counting as 0
LinSpeed == IF Has(ent, "LinVel") THEN Length(Get(ent, "LinVel")) ELSE 0
AngSpeed == IF ~Has(ent, "AngVel") THEN 0
            ELSE IF dim = 2 THEN Abs(Get(ent, "AngVel")[1])
            ELSE Length(Get(ent, "AngVel"))

\* C12: bounding-volume formula.  Bounding Volume Maintenance writes
\* min = position - (h + m) and max = position + (h + m) on every axis, with
\* h the half extent of the shape at the current pose and
\* m = 2 * (1/100) * (linear speed + angular speed); at linear speed 10 and
\* angular speed 0, m = 1/5.
C12_BoundsFormula ==
    AabbWritten
    => LET h == RotatedHalfExtents(Get(ent, "ColliderShape"), Get(ent, "Rot"), dim)
           m == Q(2 * (LinSpeed + AngSpeed), 100)
           box == Get(ent, "ColliderAabb")
       IN /\ \A i \in 1..dim :
                /\ box.mins[i] = SubQ(Int2Q(Get(ent, "Pos")[i]), AddQ(h[i], m))
                /\ box.maxs[i] = AddQ(Int2Q(Get(ent, "Pos")[i]), AddQ(h[i], m))
          /\ (LinSpeed = 10 /\ AngSpeed = 0) => m = Q(1, 5)

\* the box was written for a body moving at linear speed 10 without spinning
C12_Witness ==
    /\ AabbWritten
    /\ LinSpeed = 10 /\ AngSpeed = 0
    /\ Get(ent, "ColliderAabb").maxs[1]
         = AddQ(Int2Q(Get(ent, "Pos")[1]), AddQ(Q(Get(ent, "ColliderShape"), 2), Q(1, 5)))

\* velocities the margin is compared over: linear speeds 0, 5, 10 and
\* angular speeds 0, 1, 2 in either sense
LinVels == {IF dim = 2 THEN <<0, 0>> ELSE <<0, 0, 0>>,
            IF dim = 2 THEN <<3, -4>> ELSE <<3, -4, 0>>,
            IF dim = 2 THEN <<6, 8>> ELSE <<6, 8, 0>>}
AngVels == {IF dim = 2 THEN <<w>> ELSE <<0, 0, w>> : w \in {0, 1, -2}}
\* the entity moving at the given velocities
WithVel(lv, av) == [ent EXCEPT !["LinVel"] = Some(lv), !["AngVel"] = Some(av)]

\* C13: margin monotonicity.  At the fixed step duration the safety margin
\* is >= 0 for every velocity, it does not decrease when the combined
\* linear + angular speed grows, and at zero speed it is 0 and the written
\* box is the shape's bare extents: max - min = 2 * half extent on every axis.
C13_MarginMonotone ==
    AabbWritten
    => LET m == SafetyMargin(ent, dim)
           speed == LinSpeed + AngSpeed
           h == RotatedHalfExtents(Get(ent, "ColliderShape"), Get(ent, "Rot"), dim)
           box == Get(ent, "ColliderAabb")
       IN /\ GeqQ(m, Zero)
          /\ \A lv \in LinVels, av \in AngVels :
                LET n == SafetyMargin(WithVel(lv, av), dim)
                    other == Length(lv) + Length(av)
                IN /\ GeqQ(n, Zero)
                   /\ other = 0 => n = Zero
                   /\ speed <= other => GeqQ(n, m)
                   /\ other <= speed => GeqQ(m, n)
          /\ speed = 0
             => /\ m = Zero
                /\ \A i \in 1..dim :
                      SubQ(box.maxs[i], box.mins[i]) = MulQ(Int2Q(2), h[i])

\* the box was written for a body at rest
C13_Witness ==
    /\ AabbWritten
    /\ LinSpeed + AngSpeed = 0
    /\ SafetyMargin(ent, dim) = Zero
    /\ SubQ(Get(ent, "ColliderAabb").maxs[1], Get(ent, "ColliderAabb").mins[1])
         = Int2Q(Get(ent, "ColliderShape"))

\* update_aabb is about to run and none of the components of its change
\* filter was written since its previous run
AabbRerun ==
    /\ pc = "update_aabb"
    /\ step >= 1
    /\ chg["update_aabb"] \cap AABBChanged = {}

\* C14: idempotence of Bounding Volume Maintenance.  When the pass runs again
\* with position, orientation, linear and angular velocity untouched since
\* its previous run, it does not fire for the collider and the bounding box
\* stays as it was; computing the box a second time from the same inputs
\* gives the same box.
C14_AabbIdempotent ==
    [][AabbRerun
       => /\ ent'["ColliderAabb"] = ent["ColliderAabb"]
          /\ "update_aabb" \notin fired'
          /\ UpdateAabbMatchesAlways(ent, {})
             => UpdateAabb(UpdateAabb(ent, dim), dim) = UpdateAabb(ent, dim)]_vars

\* the pass has run a second time over a collider whose box it wrote before,
\* and did not fire
C14_Witness ==
    /\ pc = "update_mass_props"
    /\ step >= 1
    /\ "update_aabb" \notin fired
    /\ chg["update_aabb"] = {}
    /\ HasCollider(ent) /\ Has(ent, "Pos") /\ Has(ent, "Rot")
    /\ Get(ent, "ColliderAabb") = ComputeAabb(ent, dim)

\* the mass pass that just completed was the first one over a collider
\* attached in the same step without an authored snapshot
FirstAggregation ==
    /\ MassPassRan
    /\ "init_colliders" \in fired
    /\ ~Has(auth, "PrevColliderMassProperties")

\* C15: first aggregation adds the full contribution.  For a newly attached
\* collider without an authored snapshot, Collider Defaulting sets the
\* snapshot to zero, and the first Mass Aggregation Maintenance pass leaves
\* the aggregate at its value before the pass plus the collider's
\* contribution.
C15_FirstAggregation ==
    FirstAggregation
    => /\ HasCollider(pre.e)
       /\ Get(pre.e, "PrevColliderMassProperties") = CMP_ZERO(dim)
       /\ Get(ent, "Mass")
            = AddQ(Get(pre.e, "Mass"), Get(ent, "ColliderMassProperties").mass)

\* a collider with a non-zero contribution was folded in for the first time
C15_Witness ==
    /\ FirstAggregation
    /\ Get(ent, "ColliderMassProperties").mass # Zero
    /\ Get(ent, "ColliderMassProperties").mass
         = ShapeVolume(Get(ent, "ColliderShape"), dim)
    /\ Get(ent, "Mass") # Get(pre.e, "Mass")

\* C16: re-firing without a collider change is neutral.  A pass that fires
\* for a body whose collider shape and collider mass properties were not
\* written since the previous pass leaves the aggregate mass at its value
\* before the pass, apart from the epsilon clamp.
C16_RefireNeutral ==
    (/\ MassPassRan
     /\ HasCollider(pre.e)
     /\ pre.ch \cap {"ColliderShape", "ColliderMassProperties"} = {})
    => \/ Get(ent, "Mass") = Get(pre.e, "Mass")
       \/ Get(ent, "Mass") = EPSILON /\ LessQ(Get(pre.e, "Mass"), EPSILON)

\* the commands of init_mass_props are queued and about to be applied; ent
\* is still the snapshot the pass read
MassDefaultingQueued == pc = "apply_commands" /\ "init_mass_props" \in fired
IsMassCmd(c) == c[1] \in {"Mass", "InvMass"}

\* C17: dual default of mass and inverse mass.  With mass and inverse mass
\* both absent, Mass Defaulting issues the default mass, the default inverse
\* mass and then inverse mass = 1/(default mass), in this order, and the body
\* ends the pass with inverse mass 1/(default mass); with mass authored and
\* inverse mass absent it issues inverse mass = 1/(authored mass) only and
\* the mass stays as authored.
C17_DualDefault ==
    [][MassDefaultingQueued
       => /\ (~Has(ent, "Mass") /\ ~Has(ent, "InvMass"))
             => /\ SelectSeq(cmds, IsMassCmd)
                     = << <<"Mass", Default("Mass", dim)>>,
                          <<"InvMass", Default("InvMass", dim)>>,
                          <<"InvMass", Recip(Default("Mass", dim))>> >>
                /\ Get(ent', "Mass") = Default("Mass", dim)
                /\ Get(ent', "InvMass") = Recip(Default("Mass", dim))
          /\ (Has(ent, "Mass") /\ ~Has(ent, "InvMass"))
             => /\ SelectSeq(cmds, IsMassCmd)
                     = << <<"InvMass", Recip(Get(ent, "Mass"))>> >>
                /\ ent'["Mass"] = ent["Mass"]
                /\ Get(ent', "InvMass") = Recip(Get(ent, "Mass"))]_vars

\* a body spawned without mass and inverse mass has been defaulted, and the
\* inverse mass it ends with is 1/(default mass), not the default inverse mass
C17_Witness ==
    /\ Defaulted
    /\ "init_mass_props" \in fired
    /\ ~Has(auth, "Mass") /\ ~Has(auth, "InvMass")
    /\ Get(ent, "Mass") = Default("Mass", dim)
    /\ Get(ent, "InvMass") = Recip(Default("Mass", dim))
    /\ Get(ent, "InvMass") # Default("InvMass", dim)

\* no external input was written since the passes of the previous step ran
NoInput == step >= 1 /\ (hist = <<>> \/ hist[Len(hist)][1] < step)

\* C18: quiescence.  In a step before which no external input was written,
\* no pass writes the entity (aggregate mass, inverse mass, collider mass
\* properties, snapshot and bounding box stay as they are) and neither
\* maintenance pass fires; in particular the writes Mass Aggregation
\* Maintenance made in the step before do not make it fire again.
C18_Quiescence ==
    [][(NoInput /\ hist' = hist)
       => /\ ent' = ent
          /\ fired' \cap {"update_aabb", "update_mass_props"} = {}]_vars

\* a step without input has completed after a step in which the mass pass
\* wrote the body's aggregate and the collider's mass properties
C18_Witness ==
    /\ pc = "user" /\ step >= 2
    /\ hist # <<>> /\ hist[Len(hist)][1] = step - 2
    /\ fired = {}
    /\ HasCollider(ent) /\ HasMassProps(ent)
    /\ pre.e # ent
    /\ Get(ent, "ColliderMassProperties").mass # Zero

\* every field the defaulting passes insert for the entity is present
DefaultsComplete ==
    /\ Has(ent, "RigidBody") => \A c \in BodyComps \ {"Transform"} : Has(ent, c)
    /\ (Has(ent, "RigidBody") \/ Has(ent, "ColliderShape")) => HasMassProps(ent)
    /\ Has(ent, "ColliderShape") => HasCollider(ent)
\* a maintenance pass is about to read the entity
MaintenanceReads == pc \in {"update_aabb", "update_mass_props"}

====
